---- MODULE Spec2Model ----
(***************************************************************************)
(* A model of the completion-generation pipeline of OppyAI/continue:       *)
(*   - StreamTransformPipeline.transform and                               *)
(*     CompletionStreamer.streamCompletionWithFilters                      *)
(*     (core/autocomplete/generation/CompletionStreamer.ts)                *)
(*   - getSnippets / renderPrompt             (unnamed/part_000)           *)
(*   - racePromise / getAllSnippets           (unnamed/part_001)           *)
(* Strings are sequences of one-character strings.                         *)
(***************************************************************************)
EXTENDS Integers, Sequences, FiniteSets, TLC

VARIABLES
    \* ---- one streamed completion, seen from the transform ----
    src,        \* the whole text the raw model stream holds (sequence of characters)
    srcPos,     \* how many characters of src the stream has handed out
    srcEnd,     \* what the stream does once src is exhausted: "end", "hang", "throw"
    token,      \* [request -> BOOLEAN]: the caller's AbortSignal.aborted
    wrapper,    \* [request -> "open" | "returned"]: generatorWithCancellation
    tr,         \* [request -> state of one transform() invocation]
    \* ---- one call of getSnippets ----
    payload,          \* SnippetPayload: rootPathSnippets, importDefinitionSnippets,
                      \* recentlyEditedRangeSnippets
    caretWindow,      \* helper.prunedCaretWindow
    maxPromptTokens,  \* helper.options.maxPromptTokens
    includeRecent,    \* helper.options.experimental_includeRecentlyEditedRanges
    spc,              \* "start" | "loop" | "done": where getSnippets is
    ranked,           \* prioritizedSnippets as the admission loop first sees it
    queue,            \* prioritizedSnippets, shifted by the loop
    finalSnippets,    \* finalSnippets
    remainingTokenCount,
    \* ---- one call of getAllSnippets ----
    lookupKind,       \* [1..2 -> what the lookup does: "resolve", "reject", "throw", "never"]
    lookupResult,     \* [1..2 -> the snippets the lookup resolves with]
    editedRanges,     \* helper.input.recentlyEditedRanges
    useRecentlyEdited,\* helper.options.useRecentlyEdited
    lookup,           \* [1..2 -> "notCalled" | "pending" | "resolved" | "rejected"]
    timer,            \* [1..2 -> "unset" | "armed" | "fired"]: racePromise's setTimeout
    race,             \* [1..2 -> the promise racePromise returns: state and value]
    firstEvent,       \* [1..2 -> "none" | "lookup" | "timer"]: what happened first
    cpc,              \* "start" | "awaiting" | "resolved" | "rejected": getAllSnippets
    snippetPayload,   \* the payload getAllSnippets resolved to
    \* ---- overlapping requests on one CompletionStreamer ----
    streams,          \* the model calls the factory started, in order: who started it,
                      \* for which prefix, chunks produced, "live" | "ended" | "cancelled"
    mgr,              \* GeneratorReuseManager: the cached pending generation, if any
    started,          \* how many streamCompletionWithFilters calls have begun
    reqPrefix,        \* [request -> the prefix it was called with]
    reqStream,        \* [request -> the stream its generator reads]
    reqPos,           \* [request -> how many chunks of that stream it has read]
    prior,            \* [request -> the manager's cached entry when the request began]
    \* ---- one call of renderPrompt (its getSnippets inputs are those above) ----
    manuallyPassPrefix, \* helper.input.manuallyPassPrefix: not set, or a string
    prunedPrefix,     \* helper.prunedPrefix
    prunedSuffix,     \* helper.prunedSuffix
    template,         \* what getTemplate returns: string or function, compiler or none
    rpc,              \* "start" | "done": where renderPrompt is
    handed,           \* what renderPrompt passed to compilePrefixSuffix, formatSnippets
                      \* and the template
    returned,         \* the prefix and suffix renderPrompt returns
    \* ---- one call of shuffleArray ----
    theArray,         \* the array shuffleArray is given, shuffled in place
    arrayBefore,      \* its contents when shuffleArray was called
    fpc               \* "start" | "done": where shuffleArray is

varsT == <<src, srcPos, srcEnd, token, wrapper, tr>>
varsS == <<payload, caretWindow, maxPromptTokens, includeRecent, spc, ranked, queue,
           finalSnippets, remainingTokenCount>>
varsC == <<lookupKind, lookupResult, editedRanges, useRecentlyEdited, lookup, timer,
           race, firstEvent, cpc, snippetPayload>>
varsR == <<streams, mgr, started, reqPrefix, reqStream, reqPos, prior>>
varsP == <<manuallyPassPrefix, prunedPrefix, prunedSuffix, template, rpc, handed,
           returned>>
varsF == <<theArray, arrayBefore, fpc>>
vars == <<varsT, varsS, varsC, varsR, varsP, varsF>>

----------------------------------------------------------------------------
\* Bounds of the model
MaxText == 8            \* longest raw text of a model stream, in characters

MaxSnippets == 2        \* most snippets one payload holds, over its three lists
MaxFound == 1           \* most snippets one context lookup resolves with
MaxReqs == 2            \* overlapping completion requests on one CompletionStreamer
MaxProduced == 2        \* chunks one model call produces at most
MaxArray == 4           \* longest array handed to shuffleArray on its own

\* Program constants
LineCap == 5            \* transform: "if (lineCount >= 5)"
TOKEN_BUFFER == 10      \* getSnippets: tokens added to every snippet's cost
RecentDefaultPriority == 1
BaseDefaultPriority == 99

NL == "\n"
Chars == {"a", NL}

----------------------------------------------------------------------------
\* String helpers: what the JavaScript built-ins compute

Texts(n) == UNION {[1..k -> Chars] : k \in 0..n}

\* index of the first newline of s, 0 when there is none
FirstNL(s) ==
    IF \E i \in 1..Len(s) : s[i] = NL
    THEN CHOOSE i \in 1..Len(s) : s[i] = NL /\ \A j \in 1..(i-1) : s[j] # NL
    ELSE 0

\* buffer.split("\n"): the fragments between newlines; "" splits to <<"">>
RECURSIVE Split(_)
Split(s) ==
    IF FirstNL(s) = 0 THEN <<s>>
    ELSE <<SubSeq(s, 1, FirstNL(s) - 1)>> \o Split(SubSeq(s, FirstNL(s) + 1, Len(s)))

RECURSIVE Concat(_)
Concat(ss) == IF ss = <<>> THEN <<>> ELSE Head(ss) \o Concat(Tail(ss))

NumNL(s) == Cardinality({i \in 1..Len(s) : s[i] = NL})

IsPrefix(p, s) == Len(p) <= Len(s) /\ SubSeq(s, 1, Len(p)) = p

----------------------------------------------------------------------------
\* StreamTransformPipeline.transform as a state machine over one invocation.
\*   pc = "pull"  : suspended in "for await (const update of generator)"
\*   pc = "lines" : inside "for (const line of lines)", lines = those not yet visited
\*   pc = "flush" : the loop is over, at "if (!stopped && buffer.length > 0)"
\*   pc = "done"  : the generator returned;  pc = "error" : it threw

TInit ==
    [pc |-> "pull", buffer |-> <<>>, lines |-> <<>>, lineCount |-> 0,
     stopped |-> FALSE, out |-> <<>>, fullStops |-> 0]

\* (the partial line of the earlier chunks forgotten)
TOnChunkNoCarry(t, update) ==
    IF t.stopped
    THEN [t EXCEPT !.pc = "flush"]
    ELSE LET parts == Split(update)
         IN  [t EXCEPT !.pc = IF Len(parts) > 1 THEN "lines" ELSE "pull",
                       !.buffer = parts[Len(parts)],
                       !.lines = SubSeq(parts, 1, Len(parts) - 1)]

\* the loop body up to the inner for: "if (stopped) break; buffer += update; split; pop"
TOnChunk(t, update) ==
    IF t.stopped
    THEN [t EXCEPT !.pc = "flush"]
    ELSE LET parts == Split(t.buffer \o update)
         IN  [t EXCEPT !.pc = IF Len(parts) > 1 THEN "lines" ELSE "pull",
                       !.buffer = parts[Len(parts)],
                       !.lines = SubSeq(parts, 1, Len(parts) - 1)]

\* (the cap tested one line late)
CapReachedLate(n) == n > LineCap

\* the statement "if (lineCount >= 5)" of the inner loop
CapReached(n) == n >= LineCap

\* (the lines of a chunk visited from the last one back)
TOnLineLastFirst(t) ==
    LET n == t.lineCount + 1
        rest == SubSeq(t.lines, 1, Len(t.lines) - 1)
    IN  IF CapReached(n)
        THEN [t EXCEPT !.out = Append(@, Append(t.lines[Len(t.lines)], NL)),
                       !.lineCount = n, !.stopped = TRUE,
                       !.fullStops = @ + 1, !.lines = <<>>, !.pc = "pull"]
        ELSE [t EXCEPT !.out = Append(@, Append(t.lines[Len(t.lines)], NL)),
                       !.lineCount = n, !.lines = rest,
                       !.pc = IF rest = <<>> THEN "pull" ELSE "lines"]

\* one turn of "for (const line of lines)": yield line + "\n", count, maybe stop
TOnLine(t) ==
    LET n == t.lineCount + 1
        rest == Tail(t.lines)
    IN  IF CapReached(n)
        THEN [t EXCEPT !.out = Append(@, Append(Head(t.lines), NL)),
                       !.lineCount = n, !.stopped = TRUE,
                       !.fullStops = @ + 1, !.lines = <<>>, !.pc = "pull"]
        ELSE [t EXCEPT !.out = Append(@, Append(Head(t.lines), NL)),
                       !.lineCount = n, !.lines = rest,
                       !.pc = IF rest = <<>> THEN "pull" ELSE "lines"]

\* the source generator finished: leave the for-await loop
TOnEnd(t) == [t EXCEPT !.pc = "flush"]

\* (a one-character partial line taken for an empty buffer)
FlushGuardLong(t) == ~t.stopped /\ Len(t.buffer) > 1

\* "if (!stopped && buffer.length > 0) yield buffer"
FlushGuard(t) == ~t.stopped /\ Len(t.buffer) > 0

\* (what is left of the buffer emitted whether or not the cap was reached)
TOnFlushUnguarded(t) ==
    IF Len(t.buffer) > 0
    THEN [t EXCEPT !.out = Append(@, t.buffer), !.pc = "done"]
    ELSE [t EXCEPT !.pc = "done"]

\* the statement after the loop, and the generator's return
TOnFlush(t) ==
    IF FlushGuard(t)
    THEN [t EXCEPT !.out = Append(@, t.buffer), !.pc = "done"]
    ELSE [t EXCEPT !.pc = "done"]

\* (the exception caught and taken for the end of the source)
TOnThrowSwallowed(t) == [t EXCEPT !.pc = "flush"]

\* the source generator threw: the exception leaves transform()
TOnThrow(t) == [t EXCEPT !.pc = "error"]

----------------------------------------------------------------------------
\* One streamed completion: streamCompletionWithFilters over an abstract raw stream

TheReq == 1

\* getSnippets is not running
IdleS ==
    /\ payload = <<>> /\ caretWindow = <<>> /\ maxPromptTokens = 0
    /\ includeRecent = <<>> /\ spc = "idle" /\ ranked = <<>> /\ queue = <<>>
    /\ finalSnippets = <<>> /\ remainingTokenCount = 0

\* getAllSnippets is not running
IdleC ==
    /\ lookupKind = <<>> /\ lookupResult = <<>> /\ editedRanges = <<>>
    /\ useRecentlyEdited = TRUE /\ lookup = <<>> /\ timer = <<>> /\ race = <<>>
    /\ firstEvent = <<>> /\ cpc = "idle" /\ snippetPayload = <<>>

\* the cached entry of a GeneratorReuseManager that holds nothing
Empty == [state |-> "empty", prefix |-> <<>>, stream |-> 0]

\* no CompletionStreamer with overlapping requests
IdleR ==
    /\ streams = <<>> /\ mgr = Empty /\ started = 0 /\ reqPrefix = <<>>
    /\ reqStream = <<>> /\ reqPos = <<>> /\ prior = <<>>

\* renderPrompt is not running
IdleP ==
    /\ manuallyPassPrefix = <<>> /\ prunedPrefix = <<>> /\ prunedSuffix = <<>>
    /\ template = <<>> /\ rpc = "idle" /\ handed = <<>> /\ returned = <<>>

\* shuffleArray is not running
IdleF == theArray = <<>> /\ arrayBefore = <<>> /\ fpc = "idle"

InitT ==
    /\ IdleS /\ IdleC /\ IdleR /\ IdleP /\ IdleF
    /\ src \in Texts(MaxText)
    /\ srcPos = 0
    /\ srcEnd \in {"end", "hang", "throw"}
    /\ token = [r \in {TheReq} |-> FALSE]
    /\ wrapper = [r \in {TheReq} |-> "open"]
    /\ tr = [r \in {TheReq} |-> TInit]

\* the caller's AbortSignal fires
CallerAbort(r) ==
    /\ ~token[r]
    /\ tr[r].pc \notin {"done", "error"}
    /\ token' = [token EXCEPT ![r] = TRUE]
    /\ UNCHANGED <<src, srcPos, srcEnd, wrapper, tr>>

\* generatorWithCancellation: "if (token.aborted) return; yield update"
\* applied to a chunk the raw stream delivers to request r
WrapperOnChunk(r, update) ==
    IF token[r]
    THEN /\ wrapper' = [wrapper EXCEPT ![r] = "returned"]
         /\ tr' = [tr EXCEPT ![r] = TOnEnd(@)]
    ELSE /\ tr' = [tr EXCEPT ![r] = TOnChunk(@, update)]
         /\ UNCHANGED wrapper

\* the raw stream delivers its next chunk (any number of characters, also none)
SourceChunk(r) ==
    /\ tr[r].pc = "pull"
    /\ wrapper[r] = "open"
    /\ \E n \in 0..(Len(src) - srcPos) :
          /\ (srcPos = Len(src)) => (srcEnd # "hang")
          /\ srcPos' = srcPos + n
          /\ WrapperOnChunk(r, SubSeq(src, srcPos + 1, srcPos + n))
    /\ UNCHANGED <<src, srcEnd, token>>

\* the raw stream ends after its last chunk
SourceEnd(r) ==
    /\ tr[r].pc = "pull"
    /\ wrapper[r] = "open"
    /\ srcPos = Len(src)
    /\ srcEnd = "end"
    /\ tr' = [tr EXCEPT ![r] = TOnEnd(@)]
    /\ UNCHANGED <<src, srcPos, srcEnd, token, wrapper>>

\* the raw stream raises an error after its last chunk
SourceThrow(r) ==
    /\ tr[r].pc = "pull"
    /\ wrapper[r] = "open"
    /\ srcPos = Len(src)
    /\ srcEnd = "throw"
    /\ tr' = [tr EXCEPT ![r] = TOnThrow(@)]
    /\ UNCHANGED <<src, srcPos, srcEnd, token, wrapper>>

\* transform yields the next complete line to the consumer
YieldLine(r) ==
    /\ tr[r].pc = "lines"
    /\ tr' = [tr EXCEPT ![r] = TOnLine(@)]
    /\ UNCHANGED <<src, srcPos, srcEnd, token, wrapper>>

\* transform leaves its loop and yields what is left of the buffer
Flush(r) ==
    /\ tr[r].pc = "flush"
    /\ tr' = [tr EXCEPT ![r] = TOnFlush(@)]
    /\ UNCHANGED <<src, srcPos, srcEnd, token, wrapper>>

NextT ==
    \/ CallerAbort(TheReq) /\ UNCHANGED <<varsS, varsC, varsR, varsP, varsF>>
    \/ SourceChunk(TheReq) /\ UNCHANGED <<varsS, varsC, varsR, varsP, varsF>>
    \/ SourceEnd(TheReq) /\ UNCHANGED <<varsS, varsC, varsR, varsP, varsF>>
    \/ SourceThrow(TheReq) /\ UNCHANGED <<varsS, varsC, varsR, varsP, varsF>>
    \/ YieldLine(TheReq) /\ UNCHANGED <<varsS, varsC, varsR, varsP, varsF>>
    \/ Flush(TheReq) /\ UNCHANGED <<varsS, varsC, varsR, varsP, varsF>>

SpecT == InitT /\ [][NextT]_vars

\* a chunk, the end or the error the raw stream has ready is delivered, and the
\* consumer keeps pulling; a raw stream that hangs has nothing ready, and the caller
\* need never cancel
FairT ==
    /\ WF_vars(SourceChunk(TheReq) /\ UNCHANGED <<varsS, varsC, varsR, varsP, varsF>>)
    /\ WF_vars(SourceEnd(TheReq) /\ UNCHANGED <<varsS, varsC, varsR, varsP, varsF>>)
    /\ WF_vars(SourceThrow(TheReq) /\ UNCHANGED <<varsS, varsC, varsR, varsP, varsF>>)
    /\ WF_vars(YieldLine(TheReq) /\ UNCHANGED <<varsS, varsC, varsR, varsP, varsF>>)
    /\ WF_vars(Flush(TheReq) /\ UNCHANGED <<varsS, varsC, varsR, varsP, varsF>>)

SpecTFair == SpecT /\ FairT

----------------------------------------------------------------------------
\* What the claims about the transform speak of

\* index of the last newline of s, 0 when there is none
LastNL(s) ==
    IF \E i \in 1..Len(s) : s[i] = NL
    THEN CHOOSE i \in 1..Len(s) : s[i] = NL /\ \A j \in (i+1)..Len(s) : s[j] # NL
    ELSE 0

\* the newline-terminated lines of s, each with its newline
RECURSIVE LinesOf(_)
LinesOf(s) ==
    IF FirstNL(s) = 0 THEN <<>>
    ELSE <<SubSeq(s, 1, FirstNL(s))>> \o LinesOf(SubSeq(s, FirstNL(s) + 1, Len(s)))

\* what follows the last newline of s
PartialOf(s) == SubSeq(s, LastNL(s) + 1, Len(s))

FirstLines(s, k) == SubSeq(LinesOf(s), 1, k)

EndsWithNL(c) == Len(c) > 0 /\ c[Len(c)] = NL

\* the raw stream was delivered to transform() without the caller's signal being seen
NoCancel == wrapper[TheReq] = "open"

\* C1: a raw stream of more than 5 newline-terminated lines, not cancelled by the
\* caller, yields under every chunking exactly its first 5 lines, each with its
\* newline, and fullStop is invoked exactly once: never more than that on the way,
\* and exactly that from the moment the cap is hit.
C1_LineCap ==
    LET t == tr[TheReq] IN
    (NumNL(src) > LineCap /\ NoCancel) =>
        /\ t.fullStops <= 1
        /\ IsPrefix(t.out, FirstLines(src, LineCap))
        /\ (t.stopped \/ t.pc = "done") =>
              (t.out = FirstLines(src, LineCap) /\ t.fullStops = 1)

\* a 6-line stream with a non-empty line, run to the end of transform()
C1_Witness ==
    LET t == tr[TheReq] IN
    /\ NumNL(src) > LineCap /\ NoCancel /\ ~token[TheReq]
    /\ t.pc = "done" /\ Len(t.out) = LineCap /\ t.fullStops = 1
    /\ \E i \in 1..Len(t.out) : Len(t.out[i]) > 1

\* the raw stream ended by itself after n complete lines and a non-empty partial line
EndedWithPartial(n) ==
    /\ NoCancel /\ srcEnd = "end" /\ tr[TheReq].pc = "done"
    /\ NumNL(src) = n /\ PartialOf(src) # <<>>

\* C2 as stated: for every n in 0..5, n complete lines and a trailing partial line
\* come out as the n lines followed by the partial line, and fullStop is never invoked.
C2_AsStated ==
    \A n \in 0..LineCap :
        EndedWithPartial(n) =>
            /\ tr[TheReq].out = Append(LinesOf(src), PartialOf(src))
            /\ tr[TheReq].fullStops = 0

\* C2 amended: the same for n in 0..4; with n = 5 the cap is hit, the 5 lines come
\* out, fullStop is invoked once and the partial line is dropped.
C2_BelowCap ==
    /\ \A n \in 0..(LineCap - 1) :
          EndedWithPartial(n) =>
              /\ tr[TheReq].out = Append(LinesOf(src), PartialOf(src))
              /\ tr[TheReq].fullStops = 0
    /\ EndedWithPartial(LineCap) =>
          /\ tr[TheReq].out = LinesOf(src)
          /\ tr[TheReq].fullStops = 1

\* 4 complete lines and a partial line, all emitted
C2_Witness ==
    /\ EndedWithPartial(LineCap - 1)
    /\ Len(tr[TheReq].out) = LineCap
    /\ ~EndsWithNL(tr[TheReq].out[LineCap])

\* C3 as stated: once generatorWithCancellation has seen the caller's signal aborted,
\* no partial-line chunk is emitted: every chunk of the output is a completed line.
C3_NoPartialAfterAbort ==
    (wrapper[TheReq] = "returned") =>
        \A i \in 1..Len(tr[TheReq].out) : EndsWithNL(tr[TheReq].out[i])

\* transform() run on s delivered as one single chunk, up to its next pull
RECURSIVE RunLines(_)
RunLines(t) == IF t.pc = "lines" THEN RunLines(TOnLine(t)) ELSE t

WholeChunk(s) == RunLines(TOnChunk(TInit, s))

\* the output of transform() for s as one chunk, followed by the end of the source
WholeEnded(s) == TOnFlush(TOnEnd(WholeChunk(s))).out

\* the text the raw stream has handed out so far
Consumed == SubSeq(src, 1, srcPos)

\* C11: with no cancellation, whatever the chunking of a text, transform() stands
\* where it stands after the same text as one single chunk (same output so far, same
\* buffered partial line, same line count, stopped or not), and when transform() has
\* ended the whole output is that of the whole text delivered as one chunk.
C11_ChunkingIrrelevant ==
    LET t == tr[TheReq] IN
    /\ (NoCancel /\ t.pc = "pull") =>
          LET w == WholeChunk(Consumed)
          IN  /\ t.out = w.out /\ t.buffer = w.buffer
              /\ t.lineCount = w.lineCount /\ t.stopped = w.stopped
    /\ (NoCancel /\ t.pc = "done") =>
          (t.out = WholeEnded(Consumed) /\ t.out = WholeEnded(src))

\* a chunk ended in the middle of the second line: one line is out, the start of
\* the next is buffered and the rest of it is still to come
C11_Witness ==
    LET t == tr[TheReq] IN
    /\ NoCancel /\ ~token[TheReq] /\ t.pc = "pull"
    /\ Len(t.out) = 1 /\ t.buffer # <<>>
    /\ srcPos < Len(src) /\ src[srcPos + 1] # NL

\* C12: at every point, cancelled or not, the chunks emitted so far concatenate to a
\* prefix of the text consumed so far from the source.
C12_OrderPreserved ==
    IsPrefix(Concat(tr[TheReq].out), Consumed)

\* an empty line, a line "a" and a partial line came out in the order of the source
C12_Witness ==
    LET t == tr[TheReq] IN
    /\ t.pc = "done" /\ Len(t.out) = 3
    /\ t.out[1] # t.out[2] /\ ~EndsWithNL(t.out[3])
    /\ Concat(t.out) = src

\* the complete lines of s, up to the cap
CappedLines(s) ==
    IF Len(LinesOf(s)) > LineCap THEN FirstLines(s, LineCap) ELSE LinesOf(s)

Completed == tr[TheReq].pc \in {"done", "error"}

\* C13: for every source stream, one that never ends and one that stops producing
\* after the line cap was reached included, transform() eventually completes.
C13_Terminates == <>Completed

\* C17: once the raw stream has raised its error transform() has thrown and is not
\* ended normally, nothing is emitted after the error, and no partial-line chunk is
\* in the output; a transform that ended normally over a failing stream ended before
\* the error, at the line cap or on the caller's cancellation.
C17_ErrorPropagates ==
    /\ [](tr[TheReq].pc = "error" =>
            /\ srcEnd = "throw" /\ srcPos = Len(src)
            /\ \A i \in 1..Len(tr[TheReq].out) : EndsWithNL(tr[TheReq].out[i])
            /\ tr[TheReq].out = CappedLines(src))
    /\ []((srcEnd = "throw" /\ tr[TheReq].pc \in {"flush", "done"}) =>
            (tr[TheReq].stopped \/ wrapper[TheReq] = "returned"))
    /\ [][tr[TheReq].pc = "error" => tr' = tr]_vars

\* the stream failed after a line and a partial line: the line is out, the partial
\* line is still in the buffer and stays there
C17_Witness ==
    LET t == tr[TheReq] IN
    /\ t.pc = "error" /\ Len(t.out) = 1 /\ t.buffer # <<>> /\ ~token[TheReq]

\* C20: once the line counter has reached the cap, transform() takes nothing more
\* from the source: the raw stream hands out no further text.
C20_NoInputAfterCap ==
    [][tr[TheReq].stopped => srcPos' = srcPos]_vars

\* the emitted chunks that end a line
WholeLineChunks(out) == {i \in 1..Len(out) : NumNL(out[i]) > 0}

\* C24: in every execution of transform, whatever the source, the cancellation or
\* the errors, the line counter never exceeds 5, every emitted chunk holds at most
\* one newline and only as its last character, at most 5 newline-terminated chunks
\* are emitted, and a chunk without a newline can only be the last chunk and is
\* never emitted once the cap was reached.
C24_BoundedShape ==
    LET t == tr[TheReq] IN
    /\ t.lineCount <= 5
    /\ \A i \in 1..Len(t.out) :
          /\ NumNL(t.out[i]) <= 1
          /\ \A k \in 1..Len(t.out[i]) : t.out[i][k] = NL => k = Len(t.out[i])
    /\ Cardinality(WholeLineChunks(t.out)) <= 5
    /\ \A i \in 1..Len(t.out) :
          NumNL(t.out[i]) = 0 =>
              /\ i = Len(t.out)
              /\ t.pc = "done"
              /\ ~t.stopped
              /\ Cardinality(WholeLineChunks(t.out)) < 5

\* the cap was reached with a partial line held in the buffer, and transform ended
\* with its five lines and without that partial line
C24_Witness ==
    LET t == tr[TheReq] IN
    /\ t.pc = "done" /\ t.stopped /\ t.lineCount = 5
    /\ t.buffer # <<>>
    /\ Len(t.out) = 5

----------------------------------------------------------------------------
\* getSnippets (unnamed/part_000): filter, shuffle, rank, admit into the token budget

\* no completion is being streamed
IdleT ==
    /\ src = <<>> /\ srcPos = 0 /\ srcEnd = "end"
    /\ token = <<>> /\ wrapper = <<>> /\ tr = <<>>

\* file paths are sequences of path atoms; startsWith is the prefix test on them
OutputPrefix == <<"output:extension-output-Continue.continue">>
CurFile == <<"file:", "cur.ts">>
OtherFile == <<"file:", "other.ts">>
OutputFile == OutputPrefix \o <<"log">>

\* the snippets a payload is drawn from: plain small, plain large, one whose trimmed
\* body may lie in the caret window, a whitespace-only one, one of the tool's own output
SnippetPool ==
    { [content |-> <<"b">>, filepath |-> CurFile, type |-> "code"],
      [content |-> <<"W">>, filepath |-> OtherFile, type |-> "code"],
      [content |-> <<"a", " ">>, filepath |-> CurFile, type |-> "code"],
      [content |-> <<" ">>, filepath |-> OtherFile, type |-> "code"],
      [content |-> <<"b">>, filepath |-> OutputFile, type |-> "code"] }

\* the payloads of at most n snippets over the three lists
Payloads(n) ==
    UNION { { [rootPathSnippets |-> r, importDefinitionSnippets |-> i,
               recentlyEditedRangeSnippets |-> e] :
                 r \in [1..sz[1] -> SnippetPool], i \in [1..sz[2] -> SnippetPool],
                 e \in [1..sz[3] -> SnippetPool] } :
            sz \in {t \in (0..n) \X (0..n) \X (0..n) : t[1] + t[2] + t[3] <= n} }

\* experimental_includeRecentlyEditedRanges is a boolean or a number
BoolOption(b) == [isNum |-> FALSE, on |-> b, num |-> 0]
NumOption(n) == [isNum |-> TRUE, on |-> FALSE, num |-> n]
IncludeRecentChoices ==
    {BoolOption(FALSE), BoolOption(TRUE), NumOption(0), NumOption(BaseDefaultPriority),
     NumOption(BaseDefaultPriority + 1)}

MaxPromptTokensChoices == {0, TOKEN_BUFFER + 1, 2 * TOKEN_BUFFER + 6}
CaretWindows == {<<>>, <<"a">>}

\* countTokens(text, modelName): one token per letter, 15 for the long word "W",
\* none for white space
CharTokens(c) == IF c = "W" THEN 15 ELSE IF c \in {" ", NL} THEN 0 ELSE 1

RECURSIVE countTokens(_)
countTokens(text) ==
    IF text = <<>> THEN 0 ELSE CharTokens(Head(text)) + countTokens(Tail(text))

IsSpace(c) == c \in {" ", NL}

\* String.prototype.trim
RECURSIVE TrimLeft(_)
TrimLeft(s) == IF s # <<>> /\ IsSpace(Head(s)) THEN TrimLeft(Tail(s)) ELSE s

RECURSIVE TrimRight(_)
TrimRight(s) ==
    IF s # <<>> /\ IsSpace(s[Len(s)]) THEN TrimRight(SubSeq(s, 1, Len(s) - 1)) ELSE s

Trim(s) == TrimRight(TrimLeft(s))

\* String.prototype.includes (Array.prototype.filter is SelectSeq)
Includes(s, sub) ==
    \E i \in 0..(Len(s) - Len(sub)) : SubSeq(s, i + 1, i + Len(sub)) = sub

\* isValidSnippet: a snippet with a non-empty body
isValidSnippet(snippet) == Trim(snippet.content) # <<>>

getRemainingTokenCount(window, maxTokens) == maxTokens - countTokens(window)

\* the random indices of one shuffle of n elements: js[i] in 1..i for i = n down to 2
RandomChoices(n) == {js \in [2..n -> 1..n] : \A i \in 2..n : js[i] <= i}

\* (a[i] = a[j] alone: the element at i lost, the one at j doubled)
SwapOverwrite(array, i, j) == [array EXCEPT ![i] = array[j]]

\* "[array[i], array[j]] = [array[j], array[i]]"
Swap(array, i, j) == [array EXCEPT ![i] = array[j], ![j] = array[i]]

RECURSIVE ShuffleFrom(_, _, _)
ShuffleFrom(array, i, js) ==
    IF i < 2 THEN array ELSE ShuffleFrom(Swap(array, i, js[i]), i - 1, js)

\* shuffleArray, with Math.random's draws given by js
shuffleArray(array, js) == ShuffleFrom(array, Len(array), js)

InCaretWindowOrEmpty(s, window) ==
    Trim(s.content) = <<>> \/ Includes(window, Trim(s.content))

filterSnippetsAlreadyInCaretWindow(snippets, window) ==
    LET Keep(s) == ~InCaretWindowOrEmpty(s, window) IN SelectSeq(snippets, Keep)

\* (the order of the comparison turned round)
RECURSIVE SortDescending(_)
SortDescending(seq) ==
    IF seq = <<>> THEN <<>>
    ELSE LET x == seq[Len(seq)]
             front == SortDescending(SubSeq(seq, 1, Len(seq) - 1))
             Before(y) == y.priority >= x.priority
             After(y) == y.priority < x.priority
         IN  SelectSeq(front, Before) \o <<x>> \o SelectSeq(front, After)

\* .sort((a, b) => a.priority - b.priority): stable, ascending
RECURSIVE SortByPriority(_)
SortByPriority(seq) ==
    IF seq = <<>> THEN <<>>
    ELSE LET x == seq[Len(seq)]
             front == SortByPriority(SubSeq(seq, 1, Len(seq) - 1))
             Before(y) == y.priority <= x.priority
             After(y) == y.priority > x.priority
         IN  SelectSeq(front, Before) \o <<x>> \o SelectSeq(front, After)

\* snippetConfigs, without the snippets field no later statement reads
snippetConfigs(opt) ==
    << [key |-> "recentlyEditedRanges", enabledOrPriority |-> opt,
        defaultPriority |-> RecentDefaultPriority],
       [key |-> "base", enabledOrPriority |-> BoolOption(TRUE),
        defaultPriority |-> BaseDefaultPriority] >>

Truthy(e) == IF e.isNum THEN e.num # 0 ELSE e.on

\* snippetOrder: the enabled sources with their priorities, in ascending priority
snippetOrder(opt) ==
    LET Enabled(c) == Truthy(c.enabledOrPriority)
        enabled == SelectSeq(snippetConfigs(opt), Enabled)
    IN  SortByPriority(
          [k \in 1..Len(enabled) |->
             [key |-> enabled[k].key,
              priority |-> IF enabled[k].enabledOrPriority.isNum
                           THEN enabled[k].enabledOrPriority.num
                           ELSE enabled[k].defaultPriority]])

\* flatMap: each source's snippets, paired with the source's priority
RECURSIVE FlatMapSources(_, _)
FlatMapSources(order, snippets) ==
    IF order = <<>> THEN <<>>
    ELSE [k \in 1..Len(snippets[Head(order).key]) |->
             [snippet |-> snippets[Head(order).key][k],
              priority |-> Head(order).priority]]
         \o FlatMapSources(Tail(order), snippets)

\* (the whole path compared, not its beginning)
IsOwnOutputExact(snippet) == snippet.filepath = OutputPrefix

\* "filepath?.startsWith("output:extension-output-Continue.continue")"
IsOwnOutput(snippet) == IsPrefix(OutputPrefix, snippet.filepath)

\* The arrays of one call by name. JavaScript arrays are shared by reference: root,
\* import and recent are the payload's own three arrays; base and configBase are the
\* new arrays the two calls of filter return (lines 48-51 and 73-76), each over a
\* new array made by the spread of root and import.
ArraysAtShuffle(pl, window) ==
    [root |-> pl.rootPathSnippets,
     import |-> pl.importDefinitionSnippets,
     recent |-> pl.recentlyEditedRangeSnippets,
     base |-> filterSnippetsAlreadyInCaretWindow(
                pl.rootPathSnippets \o pl.importDefinitionSnippets, window),
     configBase |-> filterSnippetsAlreadyInCaretWindow(
                      pl.rootPathSnippets \o pl.importDefinitionSnippets, window)]

\* (shuffleArray handed the payload's own rootPathSnippets)
ShuffleArgumentOfPayload(filtered) == "root"

\* the array shuffleArray is handed on lines 47 and 72: the one filter returned
ShuffleArgument(filtered) == filtered

\* both calls of shuffleArray, each permuting its argument in place; js and js2 are
\* their draws of Math.random
ArraysAfterShuffle(pl, window, js, js2) ==
    LET h0 == ArraysAtShuffle(pl, window)
        h1 == [h0 EXCEPT ![ShuffleArgument("base")] = shuffleArray(@, js)]
    IN  [h1 EXCEPT ![ShuffleArgument("configBase")] = shuffleArray(@, js2)]

\* the payload as its caller finds it, given the arrays
PayloadOf(h) ==
    [rootPathSnippets |-> h.root, importDefinitionSnippets |-> h.import,
     recentlyEditedRangeSnippets |-> h.recent]

\* prioritizedSnippets as the loop first sees it. Each element keeps the priority it
\* was sorted by (the code drops it) so that the claims can speak of it. The array
\* of snippetConfigs' own field is read by no statement, so its draws do not matter.
prioritizedSnippets(pl, window, opt, js) ==
    LET h == ArraysAfterShuffle(pl, window, js, js)
        snippets == [recentlyEditedRanges |-> h.recent, base |-> h.base]
        sorted == SortByPriority(FlatMapSources(snippetOrder(opt), snippets))
        NotOwnOutput(e) == ~IsOwnOutput(e.snippet)
    IN  SelectSeq(sorted, NotOwnOutput)

\* (the snippet's own tokens weighed against the budget, the overhead forgotten)
AffordableNoBuffer(remaining, snippetSize) == remaining >= snippetSize - TOKEN_BUFFER

\* "if (remainingTokenCount >= snippetSize)"
Affordable(remaining, snippetSize) == remaining >= snippetSize

snippetSize(snippet) == countTokens(snippet.content) + TOKEN_BUFFER

InitS ==
    /\ IdleT /\ IdleC /\ IdleR /\ IdleP /\ IdleF
    /\ payload \in Payloads(MaxSnippets)
    /\ caretWindow \in CaretWindows
    /\ maxPromptTokens \in MaxPromptTokensChoices
    /\ includeRecent \in IncludeRecentChoices
    /\ spc = "start"
    /\ ranked = <<>> /\ queue = <<>> /\ finalSnippets = <<>>
    /\ remainingTokenCount = 0

\* getSnippets up to its loop: lines 45-118
Prioritize ==
    /\ spc = "start"
    /\ \E js \in RandomChoices(Len(
                   ArraysAtShuffle(payload, caretWindow)[ShuffleArgument("base")])) :
          LET ps == prioritizedSnippets(payload, caretWindow, includeRecent, js)
              numbered == [k \in 1..Len(ps) |->
                             [snippet |-> ps[k].snippet, priority |-> ps[k].priority,
                              idx |-> k]]
          IN  /\ ranked' = numbered
              /\ queue' = numbered
              /\ \E js2 \in RandomChoices(Len(
                       ArraysAtShuffle(payload, caretWindow)[ShuffleArgument("configBase")])) :
                    payload' = PayloadOf(ArraysAfterShuffle(payload, caretWindow, js, js2))
    /\ finalSnippets' = <<>>
    /\ remainingTokenCount' = getRemainingTokenCount(caretWindow, maxPromptTokens)
    /\ spc' = "loop"
    /\ UNCHANGED <<caretWindow, maxPromptTokens, includeRecent>>

\* (the budget left out of the loop's condition)
LoopGuardNonEmpty == Len(queue) > 0

\* "while (remainingTokenCount > 0 && prioritizedSnippets.length > 0)"
LoopGuard == remainingTokenCount > 0 /\ Len(queue) > 0

\* the arrays while the loop runs: the payload's three and prioritizedSnippets, the
\* new array the filter of lines 110-115 returned
ArraysInLoop ==
    [root |-> payload.rootPathSnippets,
     import |-> payload.importDefinitionSnippets,
     recent |-> payload.recentlyEditedRangeSnippets,
     prioritized |-> queue]

\* the array "prioritizedSnippets.shift()" takes its first element off, in place
ShiftArgument == "prioritized"

\* one turn of the while loop: lines 120-133
AdmitStep ==
    /\ spc = "loop"
    /\ LoopGuard
    /\ LET first == Head(ArraysInLoop[ShiftArgument])
           after == [ArraysInLoop EXCEPT ![ShiftArgument] = Tail(@)]
       IN  /\ queue' = after.prioritized
           /\ payload' = PayloadOf(after)
           /\ IF /\ isValidSnippet(first.snippet)
                 /\ Affordable(remainingTokenCount, snippetSize(first.snippet))
              THEN /\ finalSnippets' = Append(finalSnippets, first)
                   /\ remainingTokenCount' =
                         remainingTokenCount - snippetSize(first.snippet)
              ELSE UNCHANGED <<finalSnippets, remainingTokenCount>>
    /\ UNCHANGED <<caretWindow, maxPromptTokens, includeRecent, spc, ranked>>

\* the loop ends: "return finalSnippets"
ReturnSnippets ==
    /\ spc = "loop"
    /\ ~LoopGuard
    /\ spc' = "done"
    /\ UNCHANGED <<payload, caretWindow, maxPromptTokens, includeRecent, ranked, queue,
                   finalSnippets, remainingTokenCount>>

NextS ==
    \/ Prioritize /\ UNCHANGED <<varsT, varsC, varsR, varsP, varsF>>
    \/ AdmitStep /\ UNCHANGED <<varsT, varsC, varsR, varsP, varsF>>
    \/ ReturnSnippets /\ UNCHANGED <<varsT, varsC, varsR, varsP, varsF>>

SpecS == InitS /\ [][NextS]_vars

----------------------------------------------------------------------------
\* What the claims about getSnippets speak of

\* B: the budget the admission loop starts with
InitialBudget == getRemainingTokenCount(caretWindow, maxPromptTokens)

\* content cost plus per-snippet overhead of a sequence of admitted snippets
RECURSIVE TotalCost(_)
TotalCost(admitted) ==
    IF admitted = <<>> THEN 0
    ELSE countTokens(Head(admitted).snippet.content) + 10 + TotalCost(Tail(admitted))

InAdmission == spc \in {"loop", "done"}

\* C4 as stated: for every initial budget B, negative ones included, the admitted
\* snippets cost at most B in total and the remaining budget is never negative.
C4_AsStated ==
    InAdmission =>
        /\ TotalCost(finalSnippets) <= InitialBudget
        /\ remainingTokenCount >= 0

\* C4 amended: what is admitted and what remains always add up to B; for B >= 0 the
\* admitted snippets cost at most B and the remaining budget is never negative; for
\* B < 0 nothing is admitted and the remaining budget stays at B.
C4_BudgetBound ==
    InAdmission =>
        /\ TotalCost(finalSnippets) + remainingTokenCount = InitialBudget
        /\ InitialBudget >= 0 =>
              (TotalCost(finalSnippets) <= InitialBudget /\ remainingTokenCount >= 0)
        /\ InitialBudget < 0 =>
              (finalSnippets = <<>> /\ remainingTokenCount = InitialBudget)

\* two snippets admitted, the budget not used up
C4_Witness ==
    /\ spc = "done" /\ Len(finalSnippets) = 2
    /\ remainingTokenCount > 0 /\ remainingTokenCount < InitialBudget

\* the ranks (places in the ranked list) of the admitted snippets
AdmittedRanks == {finalSnippets[i].idx : i \in 1..Len(finalSnippets)}

\* the budget that remained when the snippet of rank k had its turn
RemainingAtTurn(k) ==
    InitialBudget
      - TotalCost(SelectSeq(finalSnippets, LAMBDA e : e.idx < k))

\* the snippet of rank k was valid and fitted the budget at its turn, and was left out
SkippedThoughFitting(k) ==
    /\ k \notin AdmittedRanks
    /\ Trim(ranked[k].snippet.content) # <<>>
    /\ countTokens(ranked[k].snippet.content) + 10 <= RemainingAtTurn(k)

\* C5: no snippet of a lower-priority source is admitted while a valid snippet of a
\* higher-priority source that fitted the budget remaining at its turn was skipped,
\* and the admitted snippets come in non-decreasing priority number.
C5_PriorityOrder ==
    InAdmission =>
        /\ \A i \in 1..Len(finalSnippets) : \A k \in 1..Len(ranked) :
              ranked[k].priority < finalSnippets[i].priority => ~SkippedThoughFitting(k)
        /\ \A i, j \in 1..Len(finalSnippets) :
              i < j => finalSnippets[i].priority <= finalSnippets[j].priority

\* a snippet of the second source admitted after a valid snippet of the first source
\* was turned away for its cost
C5_Witness ==
    /\ spc = "done"
    /\ \E i \in 1..Len(finalSnippets) : \E k \in 1..Len(ranked) :
          /\ ranked[k].priority < finalSnippets[i].priority
          /\ k \notin AdmittedRanks
          /\ Trim(ranked[k].snippet.content) # <<>>

\* C14: no snippet of any source, base or recentlyEditedRanges, whose trimmed body is
\* empty or lies verbatim in the pruned caret window reaches ranking, and none is in
\* the output of getSnippets.
C14_CaretWindowExclusion ==
    InAdmission =>
        /\ \A k \in 1..Len(ranked) :
              ~InCaretWindowOrEmpty(ranked[k].snippet, caretWindow)
        /\ \A i \in 1..Len(finalSnippets) :
              ~InCaretWindowOrEmpty(finalSnippets[i].snippet, caretWindow)

\* C15: a snippet whose filepath starts with the output-channel prefix is never in
\* the list the admission loop works on nor in the output of getSnippets, and the
\* budget spent is the cost of the admitted snippets alone.
C15_SelfOutputExcluded ==
    InAdmission =>
        /\ \A k \in 1..Len(ranked) : ~IsPrefix(OutputPrefix, ranked[k].snippet.filepath)
        /\ \A k \in 1..Len(queue) : ~IsPrefix(OutputPrefix, queue[k].snippet.filepath)
        /\ \A i \in 1..Len(finalSnippets) :
              ~IsPrefix(OutputPrefix, finalSnippets[i].snippet.filepath)
        /\ InitialBudget - remainingTokenCount = TotalCost(finalSnippets)

\* the first source, enabled, held a snippet of the tool's own output and the base
\* source another: getSnippets returned one admitted snippet of the second only
C15_Witness ==
    /\ spc = "done"
    /\ Truthy(includeRecent)
    /\ \E k \in 1..Len(payload.recentlyEditedRangeSnippets) :
          IsPrefix(OutputPrefix, payload.recentlyEditedRangeSnippets[k].filepath)
    /\ Len(payload.rootPathSnippets) = 1
    /\ Len(finalSnippets) = 1
    /\ finalSnippets[1].snippet = payload.rootPathSnippets[1]
    /\ remainingTokenCount = InitialBudget - snippetSize(finalSnippets[1].snippet)

\* the ranks the admission loop has shifted off the list so far
Visited == 1..(Len(ranked) - Len(queue))

\* the snippet of rank k was valid, had its turn and was turned away for its cost
RejectedForCost(k) ==
    /\ k \in Visited
    /\ k \notin AdmittedRanks
    /\ isValidSnippet(ranked[k].snippet)
    /\ countTokens(ranked[k].snippet.content) + 10 > RemainingAtTurn(k)

\* C21 as stated: once a valid snippet has been rejected for its cost, no snippet
\* later in priority order is admitted.
C21_AsStated ==
    InAdmission =>
        \A i \in 1..Len(finalSnippets) : \A k \in 1..Len(ranked) :
            RejectedForCost(k) => finalSnippets[i].idx < k

\* C21 amended: a rejection does not end the admission. Every snippet has its turn
\* in priority order as long as the remaining budget is above 0, and at its turn it
\* is admitted exactly when it is valid and its cost is within the budget remaining
\* then; a rejected snippet is dropped for good, and the loop ends only with the
\* list used up or the budget at 0 or below.
C21_FirstFit ==
    InAdmission =>
        /\ \A k \in Visited :
              /\ RemainingAtTurn(k) > 0
              /\ k \in AdmittedRanks <=>
                    /\ isValidSnippet(ranked[k].snippet)
                    /\ countTokens(ranked[k].snippet.content) + 10 <= RemainingAtTurn(k)
        /\ AdmittedRanks \subseteq Visited
        /\ \A i, j \in 1..Len(finalSnippets) :
              i < j => finalSnippets[i].idx < finalSnippets[j].idx
        /\ (spc = "done" /\ queue # <<>>) => remainingTokenCount <= 0

\* the large snippet was turned away for its cost and the small one after it admitted
C21_Witness ==
    /\ spc = "done"
    /\ \E k \in 1..Len(ranked) : \E i \in 1..Len(finalSnippets) :
          RejectedForCost(k) /\ finalSnippets[i].idx > k

\* the ranking C22 describes, for one outcome js of the shuffle: the recently edited
\* snippets, taken when the option is true or a number, at the option's number or at
\* 1, and the base snippets at 99; the lower number first, the recently edited ones
\* first on a tie, each source in its own order; the tool's own output removed
StatedRanking(js) ==
    LET opt == includeRecent
        recentOn == opt.isNum \/ opt.on
        recentPriority == IF opt.isNum THEN opt.num ELSE 1
        recent == IF recentOn
                  THEN [k \in 1..Len(payload.recentlyEditedRangeSnippets) |->
                          [snippet |-> payload.recentlyEditedRangeSnippets[k],
                           priority |-> recentPriority]]
                  ELSE <<>>
        shuffled == shuffleArray(
                      filterSnippetsAlreadyInCaretWindow(
                        payload.rootPathSnippets \o payload.importDefinitionSnippets,
                        caretWindow), js)
        base == [k \in 1..Len(shuffled) |-> [snippet |-> shuffled[k], priority |-> 99]]
        NotOutput(e) == ~IsPrefix(OutputPrefix, e.snippet.filepath)
    IN  SelectSeq(IF recentPriority <= 99 THEN recent \o base ELSE base \o recent,
                  NotOutput)

\* the list the admission loop starts from, without the ranks added for the claims
RankedPairs ==
    [k \in 1..Len(ranked) |->
        [snippet |-> ranked[k].snippet, priority |-> ranked[k].priority]]

\* C22: the recentlyEditedRanges source contributes its snippets exactly when its
\* option is true or any number, 0 included, and none when disabled; the sources are
\* ranked by ascending priority number (1 and 99 by default), and on equal numbers
\* the order within and between the sources is the one they had before flattening.
C22_SourceRanking ==
    InAdmission =>
        \E js \in RandomChoices(Len(filterSnippetsAlreadyInCaretWindow(
                     payload.rootPathSnippets \o payload.importDefinitionSnippets,
                     caretWindow))) :
            RankedPairs = StatedRanking(js)

\* C25: getSnippets does not mutate its inputs: no step of a call changes the
\* payload's rootPathSnippets, importDefinitionSnippets or recentlyEditedRangeSnippets,
\* so that after the call each holds the same elements in the same order as before
\* it; the shuffle and the loop's shift act on copies.
C25_InputsUntouched ==
    [][payload' = payload]_vars

\* a call that has returned after its shuffle turned round the two snippets taken
\* from rootPathSnippets and its loop shifted both off the list, while
\* rootPathSnippets holds them in the order of the ranking's reverse
C25_Witness ==
    /\ spc = "done"
    /\ Len(payload.rootPathSnippets) = 2
    /\ Len(ranked) = 2 /\ queue = <<>>
    /\ ranked[1].snippet = payload.rootPathSnippets[2]
    /\ ranked[2].snippet = payload.rootPathSnippets[1]
    /\ ranked[1].snippet # ranked[2].snippet

----------------------------------------------------------------------------
\* getAllSnippets and racePromise (unnamed/part_001)

\* the two lookups, in the order getAllSnippets calls them:
\* 1 = getRootPathSnippets, 2 = getSnippetsFromImportDefinitions
Lookups == 1..2

Pending == [state |-> "pending", value |-> <<>>]
Resolved(v) == [state |-> "resolved", value |-> v]
Rejected == [state |-> "rejected", value |-> <<>>]

FoundSnippets ==
    UNION {[1..k -> {[content |-> <<"b">>, filepath |-> CurFile],
                     [content |-> <<"W">>, filepath |-> OtherFile]}] : k \in 0..MaxFound}

EditedRangeChoices ==
    { <<>>,
      << [filepath |-> CurFile, lines |-> << <<"a">>, <<"b">> >>] >> }

\* Array.prototype.join("\n")
RECURSIVE JoinLines(_)
JoinLines(ls) ==
    IF ls = <<>> THEN <<>>
    ELSE IF Len(ls) = 1 THEN Head(ls)
    ELSE Head(ls) \o <<NL>> \o JoinLines(Tail(ls))

getSnippetsFromRecentlyEditedRanges(ranges, use) ==
    IF use = FALSE THEN <<>>
    ELSE [k \in 1..Len(ranges) |->
            [filepath |-> ranges[k].filepath, content |-> JoinLines(ranges[k].lines),
             type |-> "code"]]

InitC ==
    /\ IdleT /\ IdleS /\ IdleR /\ IdleP /\ IdleF
    /\ lookupKind \in [Lookups -> {"resolve", "reject", "throw", "never"}]
    /\ lookupResult \in [Lookups -> FoundSnippets]
    /\ editedRanges \in EditedRangeChoices
    /\ useRecentlyEdited \in BOOLEAN
    /\ lookup = [i \in Lookups |-> "notCalled"]
    /\ timer = [i \in Lookups |-> "unset"]
    /\ race = [i \in Lookups |-> Pending]
    /\ firstEvent = [i \in Lookups |-> "none"]
    /\ cpc = "start"
    /\ snippetPayload = <<>>

\* the first lookup that throws when called, 0 when none does
FirstThrower ==
    IF lookupKind[1] = "throw" THEN 1 ELSE IF lookupKind[2] = "throw" THEN 2 ELSE 0

\* the synchronous part of getAllSnippets, up to "await Promise.all": each lookup is
\* called and its promise handed to racePromise, which arms a timer; a lookup that
\* throws ends the call there
CallLookups ==
    /\ cpc = "start"
    /\ LET called == IF FirstThrower = 0 THEN Lookups ELSE 1..(FirstThrower - 1)
       IN  /\ lookup' = [i \in Lookups |-> IF i \in called THEN "pending" ELSE "notCalled"]
           /\ timer' = [i \in Lookups |-> IF i \in called THEN "armed" ELSE "unset"]
    /\ cpc' = IF FirstThrower = 0 THEN "awaiting" ELSE "rejected"
    /\ UNCHANGED <<lookupKind, lookupResult, editedRanges, useRecentlyEdited, race,
                   firstEvent, snippetPayload>>

\* Promise.race: the promise takes the first settlement and keeps it
Settle(p, outcome) == IF p.state = "pending" THEN outcome ELSE p

\* (the timer's resolution never reaches the race)
TimeoutLost(p) == p

\* "setTimeout(() => resolve([]), timeout)" as Promise.race sees it
OnTimeout(p) == Settle(p, Resolved(<<>>))

\* lookup i settles: its promise resolves with its snippets or rejects
LookupSettles(i) ==
    /\ lookup[i] = "pending"
    /\ lookupKind[i] \in {"resolve", "reject"}
    /\ lookup' = [lookup EXCEPT ![i] = IF lookupKind[i] = "resolve" THEN "resolved"
                                       ELSE "rejected"]
    /\ race' = [race EXCEPT ![i] = Settle(@, IF lookupKind[i] = "resolve"
                                             THEN Resolved(lookupResult[i])
                                             ELSE Rejected)]
    /\ firstEvent' = [firstEvent EXCEPT ![i] = IF @ = "none" THEN "lookup" ELSE @]
    /\ UNCHANGED <<lookupKind, lookupResult, editedRanges, useRecentlyEdited, timer,
                   cpc, snippetPayload>>

\* the timer of racePromise call i fires
TimerFires(i) ==
    /\ timer[i] = "armed"
    /\ timer' = [timer EXCEPT ![i] = "fired"]
    /\ race' = [race EXCEPT ![i] = OnTimeout(@)]
    /\ firstEvent' = [firstEvent EXCEPT ![i] = IF @ = "none" THEN "timer" ELSE @]
    /\ UNCHANGED <<lookupKind, lookupResult, editedRanges, useRecentlyEdited, lookup,
                   cpc, snippetPayload>>

\* Promise.all settles and getAllSnippets resumes: it rejects with the first rejected
\* race, or returns the payload once both races have resolved
AllSettles ==
    /\ cpc = "awaiting"
    /\ \/ /\ \E i \in Lookups : race[i].state = "rejected"
          /\ cpc' = "rejected"
          /\ UNCHANGED snippetPayload
       \/ /\ \A i \in Lookups : race[i].state = "resolved"
          /\ cpc' = "resolved"
          /\ snippetPayload' =
                [rootPathSnippets |-> race[1].value,
                 importDefinitionSnippets |-> race[2].value,
                 ideSnippets |-> <<>>,
                 recentlyEditedRangeSnippets |->
                     getSnippetsFromRecentlyEditedRanges(editedRanges, useRecentlyEdited),
                 recentlyVisitedRangesSnippets |-> <<>>]
    /\ UNCHANGED <<lookupKind, lookupResult, editedRanges, useRecentlyEdited, lookup,
                   timer, race, firstEvent>>

NextC ==
    \/ CallLookups /\ UNCHANGED <<varsT, varsS, varsR, varsP, varsF>>
    \/ \E i \in Lookups : LookupSettles(i) /\ UNCHANGED <<varsT, varsS, varsR, varsP, varsF>>
    \/ \E i \in Lookups : TimerFires(i) /\ UNCHANGED <<varsT, varsS, varsR, varsP, varsF>>
    \/ AllSettles /\ UNCHANGED <<varsT, varsS, varsR, varsP, varsF>>

SpecC == InitC /\ [][NextC]_vars

\* timers fire and promise continuations run; a lookup need never settle
FairC ==
    /\ WF_vars(CallLookups /\ UNCHANGED <<varsT, varsS, varsR, varsP, varsF>>)
    /\ WF_vars(AllSettles /\ UNCHANGED <<varsT, varsS, varsR, varsP, varsF>>)
    /\ \A i \in Lookups : WF_vars(TimerFires(i) /\ UNCHANGED <<varsT, varsS, varsR, varsP, varsF>>)

SpecCFair == SpecC /\ FairC

----------------------------------------------------------------------------
\* What the claims about the collector speak of

\* C8 as stated: whatever the two lookups do, getAllSnippets never fails (it never
\* ends rejected).
C8_NeverFails == cpc # "rejected"

\* what source i contributed to the payload
Contribution(i) ==
    IF i = 1 THEN snippetPayload.rootPathSnippets
    ELSE snippetPayload.importDefinitionSnippets

\* no lookup threw when called, and every lookup that rejects has lost its race
NoFailureAhead ==
    /\ cpc = "awaiting"
    /\ \A i \in Lookups : lookupKind[i] = "reject" => firstEvent[i] = "timer"

\* C9: getAllSnippets eventually resolves even if a lookup never settles; a source
\* whose timer fired first contributes an empty sequence; a source that resolved
\* before its timer contributes exactly its result.
C9_SoftTimeout ==
    /\ [](cpc = "resolved" =>
            \A i \in Lookups :
               /\ firstEvent[i] = "timer" => Contribution(i) = <<>>
               /\ (firstEvent[i] = "lookup") => Contribution(i) = lookupResult[i])
    /\ (NoFailureAhead ~> (cpc = "resolved"))

\* resolved with one lookup that never settles and one that beat its timer with a
\* snippet, while the first one's late result is thrown away
C9_Witness ==
    /\ cpc = "resolved"
    /\ \E i \in Lookups : lookupKind[i] = "never" /\ Contribution(i) = <<>>
    /\ \E i \in Lookups : firstEvent[i] = "lookup" /\ Contribution(i) # <<>>

----------------------------------------------------------------------------
\* Overlapping requests on one CompletionStreamer. GeneratorReuseManager is not
\* among the sources; it is modelled from section 4.4 of the specification.

Requests == 1..MaxReqs

\* the prefixes requests come with: a text and the same text typed one character on
PrefixChoices == {<<"x">>, <<"x", "y">>}

\* in this part every chunk of a model call is the same three lines, so that the
\* second chunk takes a transform over the cap
LineChunk == <<"a", NL, NL, "a", NL>>

\* "its cached prefix is a prefix of the new prefix ... and allowReuse is true"
ShouldReuse(m, prefix, allowReuse) ==
    m.state = "pending" /\ IsPrefix(m.prefix, prefix) /\ allowReuse

\* terminating a model call: a call that is over stays as it is
CancelStream(ss, id) ==
    [ss EXCEPT ![id].status = IF @ = "live" THEN "cancelled" ELSE @]

\* getGenerator(prefix, createGenerator, allowReuse) called for request r: attach to
\* the pending generation, or cancel it, call the factory and cache the new one
GetGenerator(m, ss, r, prefix, allowReuse) ==
    IF ShouldReuse(m, prefix, allowReuse)
    THEN [mgr |-> m, streams |-> ss, stream |-> m.stream]
    ELSE LET displaced == IF m.state = "pending" THEN CancelStream(ss, m.stream) ELSE ss
             id == Len(ss) + 1
         IN  [mgr |-> [state |-> "pending", prefix |-> prefix, stream |-> id],
              streams |-> Append(displaced, [by |-> r, prefix |-> prefix, produced |-> 0,
                                             status |-> "live"]),
              stream |-> id]

\* currentGenerator?.cancel(): ends the model call and clears the cached entry;
\* with nothing cached it does nothing
CancelCurrent(m, ss) ==
    IF m.state = "pending"
    THEN [mgr |-> Empty, streams |-> CancelStream(ss, m.stream)]
    ELSE [mgr |-> m, streams |-> ss]

\* (reuse switched off)
NeverAllowReuse == FALSE

\* the third argument of getGenerator in streamCompletionWithFilters
AllowReuse == TRUE

\* (the factory called and its stream cached with the manager's cancellation left out)
ObtainStreamDirect(m, ss, r, prefix) ==
    IF ShouldReuse(m, prefix, AllowReuse)
    THEN [mgr |-> m, streams |-> ss, stream |-> m.stream]
    ELSE [mgr |-> [state |-> "pending", prefix |-> prefix, stream |-> Len(ss) + 1],
          streams |-> Append(ss, [by |-> r, prefix |-> prefix, produced |-> 0,
                                  status |-> "live"]),
          stream |-> Len(ss) + 1]

\* "const generator = this.generatorReuseManager.getGenerator(prefix, ..., true)"
ObtainStream(m, ss, r, prefix) == GetGenerator(m, ss, r, prefix, AllowReuse)

\* "const fullStop = () => this.generatorReuseManager.currentGenerator?.cancel()"
fullStop(m, ss) == CancelCurrent(m, ss)

InitR ==
    /\ IdleS /\ IdleC /\ IdleP /\ IdleF
    /\ src = <<>> /\ srcPos = 0 /\ srcEnd = "end"
    /\ token = [r \in Requests |-> FALSE]
    /\ wrapper = [r \in Requests |-> "open"]
    /\ tr = [r \in Requests |-> TInit]
    /\ streams = <<>>
    /\ mgr = Empty
    /\ started = 0
    /\ reqPrefix = [r \in Requests |-> <<>>]
    /\ reqStream = [r \in Requests |-> 0]
    /\ reqPos = [r \in Requests |-> 0]
    /\ prior = [r \in Requests |-> Empty]

Running(r) == r <= started /\ tr[r].pc \notin {"done", "error"}

\* the next call of streamCompletionWithFilters begins: up to its first await it
\* obtains its generator from the reuse manager; chunks already buffered are replayed
StartRequest(limit, prefix) ==
    /\ started < limit
    /\ LET r == started + 1
           got == ObtainStream(mgr, streams, r, prefix)
       IN  /\ started' = r
           /\ reqPrefix' = [reqPrefix EXCEPT ![r] = prefix]
           /\ prior' = [prior EXCEPT ![r] = mgr]
           /\ mgr' = got.mgr
           /\ streams' = got.streams
           /\ reqStream' = [reqStream EXCEPT ![r] = got.stream]
    /\ UNCHANGED <<reqPos, src, srcPos, srcEnd, token, wrapper, tr>>

\* a model call produces its next chunk
ModelYields(s) ==
    /\ streams[s].status = "live"
    /\ streams[s].produced < MaxProduced
    /\ streams' = [streams EXCEPT ![s].produced = @ + 1]
    /\ UNCHANGED <<mgr, started, reqPrefix, reqStream, reqPos, prior, varsT>>

\* a model call comes to its end
ModelEnds(s) ==
    /\ streams[s].status = "live"
    /\ streams' = [streams EXCEPT ![s].status = "ended"]
    /\ UNCHANGED <<mgr, started, reqPrefix, reqStream, reqPos, prior, varsT>>

\* request r receives the next chunk of its stream
StreamChunk(r) ==
    /\ Running(r)
    /\ tr[r].pc = "pull"
    /\ wrapper[r] = "open"
    /\ reqPos[r] < streams[reqStream[r]].produced
    /\ reqPos' = [reqPos EXCEPT ![r] = @ + 1]
    /\ WrapperOnChunk(r, LineChunk)
    /\ UNCHANGED <<streams, mgr, started, reqPrefix, reqStream, prior,
                   src, srcPos, srcEnd, token>>

\* request r finds its stream over: ended or cancelled, and read to the last chunk
StreamOver(r) ==
    /\ Running(r)
    /\ tr[r].pc = "pull"
    /\ wrapper[r] = "open"
    /\ reqPos[r] = streams[reqStream[r]].produced
    /\ streams[reqStream[r]].status # "live"
    /\ tr' = [tr EXCEPT ![r] = TOnEnd(@)]
    /\ UNCHANGED <<varsR, src, srcPos, srcEnd, token, wrapper>>

\* transform of request r yields a line; at the cap it calls fullStop
YieldLineR(r) ==
    /\ Running(r)
    /\ YieldLine(r)
    /\ IF TOnLine(tr[r]).fullStops > tr[r].fullStops
       THEN /\ mgr' = fullStop(mgr, streams).mgr
            /\ streams' = fullStop(mgr, streams).streams
       ELSE UNCHANGED <<mgr, streams>>
    /\ UNCHANGED <<started, reqPrefix, reqStream, reqPos, prior>>

NextR ==
    \/ \E prefix \in PrefixChoices :
          StartRequest(MaxReqs, prefix) /\ UNCHANGED <<varsS, varsC, varsP, varsF>>
    \/ \E s \in 1..Len(streams) : ModelYields(s) /\ UNCHANGED <<varsS, varsC, varsP, varsF>>
    \/ \E s \in 1..Len(streams) : ModelEnds(s) /\ UNCHANGED <<varsS, varsC, varsP, varsF>>
    \/ \E r \in Requests : StreamChunk(r) /\ UNCHANGED <<varsS, varsC, varsP, varsF>>
    \/ \E r \in Requests : StreamOver(r) /\ UNCHANGED <<varsS, varsC, varsP, varsF>>
    \/ \E r \in Requests : YieldLineR(r) /\ UNCHANGED <<varsS, varsC, varsP, varsF>>
    \/ \E r \in Requests : Running(r) /\ Flush(r) /\ UNCHANGED <<varsS, varsC, varsR, varsP, varsF>>

\* overlapping requests that no caller cancels
SpecR == InitR /\ [][NextR]_vars

\* one request, its caller free to cancel it
NextA ==
    \/ \E prefix \in PrefixChoices : StartRequest(1, prefix) /\ UNCHANGED <<varsS, varsC, varsP, varsF>>
    \/ \E s \in 1..Len(streams) : ModelYields(s) /\ UNCHANGED <<varsS, varsC, varsP, varsF>>
    \/ \E s \in 1..Len(streams) : ModelEnds(s) /\ UNCHANGED <<varsS, varsC, varsP, varsF>>
    \/ StreamChunk(TheReq) /\ UNCHANGED <<varsS, varsC, varsP, varsF>>
    \/ StreamOver(TheReq) /\ UNCHANGED <<varsS, varsC, varsP, varsF>>
    \/ YieldLineR(TheReq) /\ UNCHANGED <<varsS, varsC, varsP, varsF>>
    \/ Running(TheReq) /\ Flush(TheReq) /\ UNCHANGED <<varsS, varsC, varsR, varsP, varsF>>
    \/ Running(TheReq) /\ CallerAbort(TheReq) /\ UNCHANGED <<varsS, varsC, varsR, varsP, varsF>>

SpecA == InitR /\ [][NextA]_vars

\* the model call and the consumer's generators keep running; the caller need never
\* cancel and a request need never come
FairA ==
    /\ WF_vars(\E s \in 1..Len(streams) : ModelYields(s) /\ UNCHANGED <<varsS, varsC, varsP, varsF>>)
    /\ WF_vars(\E s \in 1..Len(streams) : ModelEnds(s) /\ UNCHANGED <<varsS, varsC, varsP, varsF>>)
    /\ WF_vars(StreamChunk(TheReq) /\ UNCHANGED <<varsS, varsC, varsP, varsF>>)
    /\ WF_vars(StreamOver(TheReq) /\ UNCHANGED <<varsS, varsC, varsP, varsF>>)
    /\ WF_vars(YieldLineR(TheReq) /\ UNCHANGED <<varsS, varsC, varsP, varsF>>)
    /\ WF_vars(Running(TheReq) /\ Flush(TheReq) /\ UNCHANGED <<varsS, varsC, varsR, varsP, varsF>>)

SpecAFair == SpecA /\ FairA

----------------------------------------------------------------------------
\* Claims about overlapping requests

\* the requests that found a generation pending when they began
FoundPending == {r \in 1..started : prior[r].state = "pending"}

\* the model calls the factory started for request r
CreatedFor(r) == {s \in 1..Len(streams) : streams[s].by = r}

LiveStreams == {s \in 1..Len(streams) : streams[s].status = "live"}

C7_SingleInFlight ==
    /\ Cardinality(LiveStreams) <= 1
    /\ \A s \in LiveStreams : mgr.state = "pending" /\ mgr.stream = s

\* the first request is still consuming its stream, which was cancelled when the
\* second request replaced it by a stream that is now running
C7_Witness ==
    /\ started = 2
    /\ Running(1)
    /\ reqStream[2] # reqStream[1]
    /\ streams[reqStream[1]].status = "cancelled"
    /\ streams[reqStream[2]].status = "live"
    /\ mgr.stream = reqStream[2]

\* the caller's signal has fired while the request consumes a running model call
AbortedWhileConsuming ==
    /\ started >= TheReq
    /\ token[TheReq]
    /\ Running(TheReq)
    /\ streams[reqStream[TheReq]].status = "live"

\* C10: when the caller's signal fires while streamCompletionWithFilters is consuming
\* a stream, the underlying model call is eventually cancelled.
C10_AbortCancelsModelCall ==
    AbortedWhileConsuming
        ~> (started >= TheReq /\ streams[reqStream[TheReq]].status = "cancelled")

\* C23: the full stop at the line cap of one request cancels only the generation
\* serving that request: when a later request has replaced the pending generation,
\* the older request reaching its 5-line cap never cancels the model call that was
\* created for the later request.
C23_CapCancelsOwnGeneration ==
    [][\A r \in 1..started :
          tr'[r].fullStops > tr[r].fullStops =>
              \A s \in 1..Len(streams) :
                  (streams[s].by > r /\ streams[s].status = "live")
                      => streams'[s].status = "live"]_vars

----------------------------------------------------------------------------
\* shuffleArray (unnamed/part_000) called on its own

\* what the arrays hold; equal elements let the multiset differ from the set
ArrayElems == {"p", "q", "r"}

InitF ==
    /\ IdleT /\ IdleS /\ IdleC /\ IdleR /\ IdleP
    /\ theArray \in UNION {[1..n -> ArrayElems] : n \in 0..MaxArray}
    /\ arrayBefore = theArray
    /\ fpc = "start"

\* the whole call: the loop from the last index down to 1, each turn with its own
\* draw of Math.random, swapping in place; the array itself is returned
ShuffleCall ==
    /\ fpc = "start"
    /\ \E js \in RandomChoices(Len(theArray)) : theArray' = shuffleArray(theArray, js)
    /\ fpc' = "done"
    /\ UNCHANGED arrayBefore

NextF == ShuffleCall /\ UNCHANGED <<varsT, varsS, varsC, varsR, varsP>>

SpecF == InitF /\ [][NextF]_vars

\* how often x occurs in seq
Count(seq, x) == Cardinality({i \in 1..Len(seq) : seq[i] = x})

\* C18: for every array, of length 0 and 1 too, and every draw of random indices,
\* shuffleArray returns an array of the same length holding every element as often
\* as before.
C18_ShufflePermutes ==
    (fpc = "done") =>
        /\ Len(theArray) = Len(arrayBefore)
        /\ \A x \in ArrayElems : Count(theArray, x) = Count(arrayBefore, x)

\* an array with an element twice came back in another order
C18_Witness ==
    /\ fpc = "done"
    /\ Len(theArray) >= 3
    /\ theArray # arrayBefore
    /\ theArray[1] # arrayBefore[1]
    /\ \E x \in ArrayElems : Count(arrayBefore, x) = 2

----------------------------------------------------------------------------
\* renderPrompt (unnamed/part_000)

\* getSnippets as the function renderPrompt calls: the admission loop run to its end
RECURSIVE AdmitAll(_, _, _)
AdmitAll(q, final, remaining) ==
    IF remaining > 0 /\ Len(q) > 0
    THEN IF /\ isValidSnippet(Head(q).snippet)
            /\ Affordable(remaining, snippetSize(Head(q).snippet))
         THEN AdmitAll(Tail(q), Append(final, Head(q).snippet),
                       remaining - snippetSize(Head(q).snippet))
         ELSE AdmitAll(Tail(q), final, remaining)
    ELSE final

getSnippets(pl, window, maxTokens, opt, js) ==
    AdmitAll(prioritizedSnippets(pl, window, opt, js), <<>>,
             getRemainingTokenCount(window, maxTokens))

\* helper.input.manuallyPassPrefix is an optional string
NotSet == [set |-> FALSE, text |-> <<>>]
Given(t) == [set |-> TRUE, text |-> t]
ManualPrefixChoices == {NotSet, Given(<<>>), Given(<<"m">>)}
PrunedPrefixChoices == {<<"p">>}
PrunedSuffixChoices == {<<>>, <<"s">>}

\* getTemplate: a string or a function template, with or without compilePrefixSuffix
TemplateChoices == [isString : BOOLEAN, hasCompiler : BOOLEAN]

HelperFilepath == CurFile

\* a string option in a condition: undefined and "" are falsy
TruthyText(m) == m.set /\ m.text # <<>>

\* "let prefix = helper.input.manuallyPassPrefix || helper.prunedPrefix"
ResolvePrefix(m, pp) == IF TruthyText(m) THEN m.text ELSE pp

\* "let suffix = manuallyPassPrefix ? "" : prunedSuffix; if (suffix === "") suffix = "\n""
ResolveSuffix(m, ps) ==
    LET suffix == IF TruthyText(m) THEN <<>> ELSE ps
    IN  IF suffix = <<>> THEN <<NL>> ELSE suffix

\* the filter of renderPrompt: code snippets with the filepath of the current file
FromCurrentFile(snippet) ==
    IF snippet.type = "code" /\ snippet.filepath # <<>>
    THEN snippet.filepath = HelperFilepath
    ELSE FALSE

\* formatSnippets: the snippets' bodies as one text, a line each
RECURSIVE formatSnippets(_)
formatSnippets(snippets) ==
    IF snippets = <<>> THEN <<>>
    ELSE Head(snippets).content \o <<NL>> \o formatSnippets(Tail(snippets))

\* what a template's compilePrefixSuffix may return for its arguments: the pair as
\* it came, or the snippets put in front of the prefix
CompiledChoices(prefix, suffix, snippets) ==
    { [prefix |-> prefix, suffix |-> suffix],
      [prefix |-> formatSnippets(snippets) \o prefix, suffix |-> suffix] }

InitP ==
    /\ IdleT /\ IdleC /\ IdleR /\ IdleF
    /\ payload \in Payloads(MaxSnippets)
    /\ caretWindow \in CaretWindows
    /\ maxPromptTokens = 2 * TOKEN_BUFFER + 6
    /\ includeRecent = BoolOption(TRUE)
    /\ spc = "idle" /\ ranked = <<>> /\ queue = <<>> /\ finalSnippets = <<>>
    /\ remainingTokenCount = 0
    /\ manuallyPassPrefix \in ManualPrefixChoices
    /\ prunedPrefix \in PrunedPrefixChoices
    /\ prunedSuffix \in PrunedSuffixChoices
    /\ template \in TemplateChoices
    /\ rpc = "start"
    /\ handed = <<>>
    /\ returned = <<>>

\* the whole call. handed records the arguments of the calls it makes: resolved is
\* the prefix and suffix after line 204; compiler, format and fn hold the argument
\* lists of compilePrefixSuffix, formatSnippets and a function template, when called
RenderPrompt ==
    /\ rpc = "start"
    /\ \E js \in RandomChoices(Len(filterSnippetsAlreadyInCaretWindow(
                   payload.rootPathSnippets \o payload.importDefinitionSnippets,
                   caretWindow))) :
          LET prefix == ResolvePrefix(manuallyPassPrefix, prunedPrefix)
              suffix == ResolveSuffix(manuallyPassPrefix, prunedSuffix)
              snippets == getSnippets(payload, caretWindow, maxPromptTokens,
                                      includeRecent, js)
              filteredSnippets == SelectSeq(snippets, FromCurrentFile)
          IN  \E compiled \in CompiledChoices(prefix, suffix, filteredSnippets) :
                LET final == IF template.hasCompiler
                             THEN compiled
                             ELSE [prefix |-> formatSnippets(filteredSnippets)
                                                \o <<NL>> \o prefix,
                                   suffix |-> suffix]
                IN  /\ handed' =
                         [resolved |-> [prefix |-> prefix, suffix |-> suffix],
                          compiler |-> IF template.hasCompiler
                                       THEN << [prefix |-> prefix, suffix |-> suffix,
                                                snippets |-> filteredSnippets] >>
                                       ELSE <<>>,
                          format |-> IF template.hasCompiler
                                     THEN <<>> ELSE <<filteredSnippets>>,
                          string |-> IF template.isString
                                     THEN <<final>> ELSE <<>>,
                          fn |-> IF template.isString
                                 THEN <<>>
                                 ELSE << [prefix |-> final.prefix,
                                          suffix |-> final.suffix,
                                          snippets |-> snippets] >>]
                    /\ returned' = final
    /\ rpc' = "done"
    /\ UNCHANGED <<manuallyPassPrefix, prunedPrefix, prunedSuffix, template>>

NextP == RenderPrompt /\ UNCHANGED <<varsT, varsS, varsC, varsR, varsF>>

SpecP == InitP /\ [][NextP]_vars

\* the snippet lists renderPrompt handed to prompt construction
HandedSnippetLists ==
    {handed.compiler[i].snippets : i \in 1..Len(handed.compiler)}
        \cup {handed.format[i] : i \in 1..Len(handed.format)}
        \cup {handed.fn[i].snippets : i \in 1..Len(handed.fn)}

\* C16: every snippet handed to formatSnippets, to compilePrefixSuffix or to a
\* function template is a code snippet whose filepath is helper.filepath.
C16_CurrentFileOnly ==
    (rpc = "done") =>
        \A list \in HandedSnippetLists : \A i \in 1..Len(list) :
            list[i].type = "code" /\ list[i].filepath = HelperFilepath

\* the suffixes renderPrompt itself handed on: to the compiler when there is one,
\* else to the template
HandedSuffixes ==
    {handed.compiler[i].suffix : i \in 1..Len(handed.compiler)}
        \cup (IF template.hasCompiler THEN {}
              ELSE {handed.string[i].suffix : i \in 1..Len(handed.string)}
                     \cup {handed.fn[i].suffix : i \in 1..Len(handed.fn)})

\* C19: when a manual prefix is supplied the prefix used is that prefix and the
\* suffix is treated as empty, so becomes a newline; in every case the suffix handed
\* to the compiler or the template is not the empty string.
C19_PrefixSuffixResolution ==
    (rpc = "done") =>
        /\ manuallyPassPrefix.set =>
              /\ handed.resolved.prefix = manuallyPassPrefix.text
              /\ handed.resolved.suffix = <<NL>>
        /\ \A suffix \in HandedSuffixes : suffix # <<>>

====
